---------------------------- MODULE Spec2Model ----------------------------
(***************************************************************************)
(* A model of rovnoui 0.4.3 (build/lib/rovnoui/__init__.py): the Screen    *)
(* and the widgets Header, ScrollingTextBox, DataFrame, Selector,          *)
(* InfoFrame and FixedLabel.                                               *)
(*                                                                         *)
(* A Python str is a sequence of one-character strings, so that len(),     *)
(* slicing, concatenation and f-string formatting are computed.  Every     *)
(* write to the terminal is an event [sink, text, style] appended to       *)
(* `printed`; `printed` holds what the current (or the most recent) call   *)
(* has written.  `exc` is the exception that call propagated to its        *)
(* caller ("None" when it returned) and `ret` the value it returned.       *)
(***************************************************************************)
EXTENDS Integers, Sequences, FiniteSets

VARIABLES
    screen,     \* the Screen object: _updates, layout, ci.visible
    pc,         \* position of the running call: "idle", "print_layout", "ask"
    idx,        \* print_layout: index of the next widget of the for loop
    printed,    \* output events written by the current / most recent call
    exc,        \* exception propagated by the most recent call, or "None"
    ret,        \* value returned by the most recent call
    box,        \* the ScrollingTextBox object: limit, _line_buffer
    appended,   \* history: the texts given to ScrollingTextBox.print so far
    label,      \* the FixedLabel object: text, limit
    frame,      \* the DataFrame object: data, header, colors
    selector,   \* the Selector object: header, choices, style
    calls       \* history: the Screen operations called so far

vars == <<screen, pc, idx, printed, exc, ret, box, appended, label, frame,
          selector, calls>>

-----------------------------------------------------------------------------
(* Bounds of the model. *)

MaxTextLen == 5
MaxLabelLimit == 6
MaxData == 3
MaxColors == 3
MaxBoxLimit == 3
MaxAppends == 4
MaxChoices == 3
MaxInputLen == 2
MaxLayout == 3
MaxUpdates == 2

-----------------------------------------------------------------------------
(* Python values and strings. *)

Min(a, b) == IF a < b THEN a ELSE b
Max(a, b) == IF a > b THEN a ELSE b

PyNone == [type |-> "NoneType"]
PyStr(s) == [type |-> "str", val |-> s]
PyInt(n) == [type |-> "int", val |-> n]
\* bool is a subclass of int: False is the int 0, True the int 1.
PyBool(b) == [type |-> "bool", val |-> IF b THEN 1 ELSE 0]
PyFalse == PyBool(FALSE)

IsNumber(v) == v.type \in {"int", "bool"}

\* a == b on the values above: int and bool compare by numeric value.
PyEq(a, b) ==
    IF IsNumber(a) /\ IsNumber(b) THEN a.val = b.val
    ELSE IF a.type # b.type THEN FALSE
    ELSE IF a.type = "NoneType" THEN TRUE
    ELSE a.val = b.val

\* A slice that clamps a negative stop to 0 instead of counting from the end.
PySliceTo_ClampNegative(s, stop) == SubSeq(s, 1, Min(Max(stop, 0), Len(s)))

\* s[:stop] for a str s and an int stop (a negative stop counts from the end).
PySliceTo(s, stop) ==
    LET n == Len(s)
        e == IF stop < 0 THEN Max(stop + n, 0) ELSE Min(stop, n)
    IN  SubSeq(s, 1, e)

\* c * n for a one-character str c (n <= 0 gives '').
PyRepeat(c, n) == [i \in 1..Max(n, 0) |-> c]

Dots == <<".", ".", ".">>

\* One write: Console.print(text, style=..., highlight=False) or print(text, end='').
Event(sink, text, style) == [sink |-> sink, text |-> text, style |-> style]
ConsolePrint(text) == Event("console", text, <<>>)

-----------------------------------------------------------------------------
(* FixedLabel *)

FixedLabel(text, limit) == [kind |-> "FixedLabel", text |-> text, limit |-> limit]

\* A truncation that forgets to make room for the dots: text[:limit] + '...'.
FixedLabel_construct_NoRoom(self) ==
    IF Len(self.text) < self.limit
    THEN self.text \o PyRepeat(" ", self.limit - Len(self.text))
    ELSE IF Len(self.text) = self.limit
    THEN self.text
    ELSE PySliceTo(self.text, self.limit) \o Dots

\* A label that pads on the left and keeps the end of a long text.
FixedLabel_construct_RightAligned(self) ==
    IF Len(self.text) < self.limit
    THEN PyRepeat(" ", self.limit - Len(self.text)) \o self.text
    ELSE IF Len(self.text) = self.limit
    THEN self.text
    ELSE SubSeq(self.text, Len(self.text) - (self.limit - 3) + 1, Len(self.text))
         \o Dots

FixedLabel_construct(self) ==
    LET text_length == Len(self.text)
    IN  IF text_length < self.limit
        THEN self.text \o PyRepeat(" ", self.limit - text_length)
        ELSE IF text_length = self.limit
        THEN self.text
        ELSE PySliceTo(self.text, self.limit - 3) \o Dots

FixedLabel_print(self) == <<ConsolePrint(FixedLabel_construct(self))>>

-----------------------------------------------------------------------------
(* Formatting helpers. *)

DigitChars == <<"0", "1", "2", "3", "4", "5", "6", "7", "8", "9">>

\* str(n) for an int n >= 0: its decimal digits.
RECURSIVE IntToStr(_)
IntToStr(n) ==
    IF n < 10 THEN <<DigitChars[n + 1]>>
    ELSE IntToStr(n \div 10) \o <<DigitChars[(n % 10) + 1]>>

\* f'{v}' for a value v that is an int >= 0 or a str.
PyFormat(v) == IF v.type = "str" THEN v.val ELSE IntToStr(v.val)

\* A zip that takes its length from the first sequence alone.
PyZip_LengthOfFirst(a, b) ==
    [i \in 1..Len(a) |-> <<a[i], IF i <= Len(b) THEN b[i] ELSE <<>> >>]

\* zip(a, b): positional pairs, as many as the shorter sequence has.
PyZip(a, b) == [i \in 1..Min(Len(a), Len(b)) |-> <<a[i], b[i]>>]

\* The outcome of a print(): what it wrote, and the exception it raised.
Returned(out) == [out |-> out, exc |-> "None"]
Raised(out, e) == [out |-> out, exc |-> e]

-----------------------------------------------------------------------------
(* Header *)

NoHeader == [kind |-> "None"]

DefaultHeaderStyle ==
    <<"b", "o", "l", "d", " ", "w", "h", "i", "t", "e", " ", "o", "n", " ",
      "b", "l", "u", "e">>

Header(text, style) == [kind |-> "Header", text |-> text, style |-> style]

Header_print(self) ==
    <<Event("console", <<" ">> \o self.text \o <<" ">>, self.style)>>

\* if type(self.header) == Header: self.header.print()
HeaderPart(header) ==
    IF header.kind = "Header" THEN Header_print(header) ELSE <<>>

-----------------------------------------------------------------------------
(* DataFrame *)

DataFrame(data, header, colors) ==
    [kind |-> "DataFrame", data |-> data, header |-> header, colors |-> colors]

\* f'[{color}]+[/{color}] {text}'
DataLine(text, color) ==
    <<"[">> \o color \o <<"]", "+", "[", "/">> \o color \o <<"]", " ">> \o text

DataFrame_pairs(self) == PyZip(self.data, self.colors)

DataFrame_print(self) ==
    LET pairs == DataFrame_pairs(self)
    IN  HeaderPart(self.header)
        \o [i \in 1..Len(pairs) |-> ConsolePrint(DataLine(pairs[i][1], pairs[i][2]))]

-----------------------------------------------------------------------------
(* Selector.  A dict is the sequence of its (key, value) items in           *)
(* insertion order, with distinct keys.                                    *)

Selector(header, choices, style) ==
    [kind |-> "Selector", header |-> header, choices |-> choices, style |-> style]

\* The two lines of one choice: f'[b]{_i}. {_key}[/]' and f'   {choice[_key]}'.
ChoiceLines(i, key, value) ==
    << ConsolePrint(<<"[", "b", "]">> \o IntToStr(i) \o <<".", " ">> \o key
                    \o <<"[", "/", "]">>),
       ConsolePrint(<<" ", " ", " ">> \o value) >>

\* A counter stepped once per dict, in the outer loop, not once per key.
NextCounter_PerDict(i, choice) == i + 1

\* The counter after the inner loop over one dict: _i += 1 for every key.
NextCounter(i, choice) == i + Len(choice)

\* for _key in choice.keys(): ... ; _i += 1   (k is the next item of choice)
RECURSIVE KeysLoop(_, _, _)
KeysLoop(choice, k, i) ==
    IF k > Len(choice) THEN <<>>
    ELSE ChoiceLines(i, choice[k][1], choice[k][2]) \o KeysLoop(choice, k + 1, i + 1)

\* for choice in self.choices: ...   (c is the next dict, i the value of _i)
RECURSIVE ChoicesLoop(_, _, _)
ChoicesLoop(choices, c, i) ==
    IF c > Len(choices) THEN <<>>
    ELSE KeysLoop(choices[c], 1, i)
         \o ChoicesLoop(choices, c + 1, NextCounter(i, choices[c]))

Selector_print(self) ==
    HeaderPart(self.header) \o ChoicesLoop(self.choices, 1, 1)

\* int(s) for a str s: surrounding whitespace is stripped, one sign is
\* allowed, and what is left must be decimal digits, at least one.
IsDigit(c) == \E d \in 1..10 : DigitChars[d] = c
DigitValue(c) == (CHOOSE d \in 1..10 : DigitChars[d] = c) - 1

RECURSIVE Strip(_)
Strip(s) ==
    IF Len(s) = 0 THEN s
    ELSE IF s[1] = " " THEN Strip(Tail(s))
    ELSE IF s[Len(s)] = " " THEN Strip(SubSeq(s, 1, Len(s) - 1))
    ELSE s

RECURSIVE DigitsToInt(_)
DigitsToInt(s) ==
    IF Len(s) = 0 THEN 0
    ELSE 10 * DigitsToInt(SubSeq(s, 1, Len(s) - 1)) + DigitValue(s[Len(s)])

PyIntParse(s) ==
    LET t == Strip(s)
        signed == Len(t) > 0 /\ t[1] \in {"-", "+"}
        body == IF signed THEN Tail(t) ELSE t
        ok == Len(body) > 0 /\ \A i \in 1..Len(body) : IsDigit(body[i])
    IN  [ok |-> ok,
         val |-> IF ~ok THEN 0
                 ELSE IF signed /\ t[1] = "-" THEN 0 - DigitsToInt(body)
                 ELSE DigitsToInt(body)]

\* The prompt of ask: f'[b][{self.style}]+[/][/] '
AskPrompt(self) ==
    Event("input",
          <<"[", "b", "]", "[">> \o self.style
              \o <<"]", "+", "[", "/", "]", "[", "/", "]", " ">>,
          <<>>)

\* What Console.input gives ask: a line, or the user's interrupt, or end of input.
InputLine(text) == [kind |-> "line", text |-> text]
Interrupt == [kind |-> "KeyboardInterrupt", text |-> <<>>]
EndOfInput == [kind |-> "EOFError", text |-> <<>>]

\* try: return int(self._console.input(...)) except KeyboardInterrupt: return False
Selector_ask(self, input) ==
    IF input.kind = "KeyboardInterrupt" THEN [ret |-> PyFalse, exc |-> "None"]
    ELSE IF input.kind = "EOFError" THEN [ret |-> PyNone, exc |-> "EOFError"]
    ELSE IF PyIntParse(input.text).ok
    THEN [ret |-> PyInt(PyIntParse(input.text).val), exc |-> "None"]
    ELSE [ret |-> PyNone, exc |-> "ValueError"]

-----------------------------------------------------------------------------
(* InfoFrame *)

InfoFrame(data, header) == [kind |-> "InfoFrame", data |-> data, header |-> header]

\* for entry in self.data: list(entry.keys())[0] raises IndexError on an empty dict.
RECURSIVE EntriesLoop(_, _)
EntriesLoop(data, e) ==
    IF e > Len(data) THEN Returned(<<>>)
    ELSE IF Len(data[e]) = 0 THEN Raised(<<>>, "IndexError")
    ELSE LET lines == << ConsolePrint(<<"[", "b", "o", "l", "d", "]">> \o data[e][1][1]
                                      \o <<"[", "/", "]">>),
                         ConsolePrint(data[e][1][2]) >>
             rest == EntriesLoop(data, e + 1)
         IN  [out |-> lines \o rest.out, exc |-> rest.exc]

InfoFrame_print(self) ==
    LET body == EntriesLoop(self.data, 1)
    IN  [out |-> HeaderPart(self.header) \o body.out, exc |-> body.exc]

-----------------------------------------------------------------------------
(* ScrollingTextBox *)

ScrollingTextBox(limit) ==
    [kind |-> "ScrollingTextBox", limit |-> limit,
     line_buffer |-> PyRepeat(<<>>, limit)]

\* An eviction that waits until the buffer is over its limit (> for >=).
Evicted_OnlyWhenOver(self) ==
    IF Len(self.line_buffer) > self.limit THEN Tail(self.line_buffer)
    ELSE self.line_buffer

\* if len(self._line_buffer) >= self.limit: self._line_buffer.pop(0)
\* (pop(0) of an empty list raises IndexError: see ScrollingTextBoxPrint)
Evicted(self) ==
    IF Len(self.line_buffer) >= self.limit THEN Tail(self.line_buffer)
    ELSE self.line_buffer

\* The buffer after print(text).
Scrolled(self, text) == Append(Evicted(self), text)

-----------------------------------------------------------------------------
(* widget.print() with no argument, as Screen.print_layout calls it. *)

WidgetPrint(w) ==
    CASE w.kind = "Header" -> Returned(Header_print(w))
      [] w.kind = "FixedLabel" -> Returned(FixedLabel_print(w))
      [] w.kind = "DataFrame" -> Returned(DataFrame_print(w))
      [] w.kind = "Selector" -> Returned(Selector_print(w))
      [] w.kind = "InfoFrame" -> InfoFrame_print(w)
      \* print() missing 1 required positional argument: 'text'
      [] w.kind = "ScrollingTextBox" -> Raised(<<>>, "TypeError")

-----------------------------------------------------------------------------
(* Screen *)

\* __init__ reads ctypes.windll, which only Windows has: a Screen exists on
\* Windows alone.
Platform == "Windows"

NoLayout == [kind |-> "None"]
Layout(items) == [kind |-> "list", items |-> items]

Screen(layout, widget_separator) ==
    [kind |-> "Screen", updates |-> 0, layout |-> layout,
     widget_separator |-> widget_separator, visible |-> FALSE]

\* print(text, end='')
StdoutPrint(text) == Event("stdout", text, <<>>)

\* system('cls') if oprsys() == 'Windows' else system('clear')
ClearCommand ==
    Event("system",
          IF Platform = "Windows" THEN <<"c", "l", "s">>
          ELSE <<"c", "l", "e", "a", "r">>,
          <<>>)

\* f'\033[{lines}A\033[2K'
PartialClearText(lines) ==
    <<"ESC", "[">> \o PyFormat(lines) \o <<"A", "ESC", "[", "2", "K">>

Screen_clear(self) == [self EXCEPT !.updates = @ + 1]

\* A partial clear that counts the lines it clears.
Screen_partial_clear_CountsLines(self, lines) ==
    [self EXCEPT !.updates = @ + (IF lines.type = "int" THEN lines.val ELSE 1)]

Screen_partial_clear(self, lines) == [self EXCEPT !.updates = @ + 1]

\* A loop that writes the separator between widgets only.
LayoutIteration_Between(items, i, sep) ==
    WidgetPrint(items[i]).out
        \o (IF i < Len(items) THEN <<StdoutPrint(sep)>> ELSE <<>>)

\* One iteration of print_layout whose widget.print() returns:
\* widget.print(); print(self.widget_separator, end='')
LayoutIteration(items, i, sep) ==
    WidgetPrint(items[i]).out \o <<StdoutPrint(sep)>>

\* A loop that goes on after a widget has raised.
Propagates_Never(e) == FALSE

\* Whether the outcome e of widget.print() leaves print_layout: nothing
\* in print_layout catches an exception.
Propagates(e) == e # "None"

-----------------------------------------------------------------------------
(* Values of the variables a specification does not use, and shared parts. *)

NoObject == [kind |-> "None"]
\* calls: the name and the argument of the most recent call, and how many
\* clear() and partial_clear() calls the Screen has had.
NoCalls == [last |-> "init", arg |-> PyNone, clears |-> 0]
CalledWith(name, arg) == [calls EXCEPT !.last = name, !.arg = arg]
Called(name) == CalledWith(name, PyNone)

\* All strs over the characters `chars` of length at most n.
Strs(chars, n) == UNION {[1..k -> chars] : k \in 0..n}

\* All lists over `items` of length at most n.
Lists(items, n) == UNION {[1..k -> items] : k \in 0..n}

-----------------------------------------------------------------------------
(* FixedLabel: construct(), __str__(), __repr__() and print() on a label    *)
(* of any text and limit.                                                  *)

LabelChars == {"a", ".", " "}
Hello == <<"h", "e", "l", "l", "o">>
HelloWorld == <<"h", "e", "l", "l", "o", " ", "w", "o", "r", "l", "d">>

LabelInputs ==
    (Strs(LabelChars, MaxTextLen) \X (0..MaxLabelLimit))
    \cup {<<Hello, 10>>, <<HelloWorld, 8>>}

InitLabel ==
    /\ label \in {FixedLabel(in[1], in[2]) : in \in LabelInputs}
    /\ screen = NoObject /\ box = NoObject /\ frame = NoObject
    /\ selector = NoObject
    /\ pc = "idle" /\ idx = 0 /\ printed = <<>> /\ exc = "None"
    /\ ret = PyNone /\ appended = <<>> /\ calls = NoCalls

LabelReturns(name) ==
    /\ label.kind = "FixedLabel"
    /\ ret' = PyStr(FixedLabel_construct(label))
    /\ printed' = <<>>
    /\ calls' = Called(name)
    /\ UNCHANGED <<screen, pc, idx, exc, box, appended, label, frame, selector>>

LabelConstruct == LabelReturns("construct")
LabelStr == LabelReturns("__str__")
LabelRepr == LabelReturns("__repr__")

LabelPrint ==
    /\ label.kind = "FixedLabel"
    /\ printed' = FixedLabel_print(label)
    /\ ret' = PyNone
    /\ calls' = Called("print")
    /\ UNCHANGED <<screen, pc, idx, exc, box, appended, label, frame, selector>>

NextLabel == LabelConstruct \/ LabelStr \/ LabelRepr \/ LabelPrint

SpecLabel == InitLabel /\ [][NextLabel]_vars

\* The str the most recent FixedLabel call produced (returned or written).
LabelCalled == label.kind = "FixedLabel" /\ calls.last # "init"
Display == IF calls.last = "print" THEN printed[1].text ELSE ret.val

EndsWithDots(r) == Len(r) >= 3 /\ SubSeq(r, Len(r) - 2, Len(r)) = Dots

\* C3: for every text and every limit >= 3 the str produced by construct()
\* (and by __str__, __repr__, print) has length exactly limit, whether the
\* text is shorter than, as long as, or longer than limit.
C3_LengthIsLimit ==
    (LabelCalled /\ label.limit >= 3) => Len(Display) = label.limit

C3_Witness ==
    /\ LabelCalled /\ calls.last = "construct"
    /\ label.limit >= 3 /\ Len(label.text) > label.limit + 1
    /\ Len(ret.val) = label.limit

\* C4: for limit >= 3, a text no longer than limit is returned whole,
\* followed only by spaces; a longer text gives a str that ends with "..."
\* and whose first limit-3 characters are the first limit-3 of the text.
C4_PadOrTruncate ==
    (LabelCalled /\ label.limit >= 3) =>
        LET r == Display
            n == Len(label.text)
        IN  IF n <= label.limit
            THEN /\ Len(r) >= n
                 /\ SubSeq(r, 1, n) = label.text
                 /\ \A i \in (n + 1)..Len(r) : r[i] = " "
            ELSE /\ EndsWithDots(r)
                 /\ Len(r) >= label.limit - 3
                 /\ SubSeq(r, 1, label.limit - 3)
                        = SubSeq(label.text, 1, label.limit - 3)

C4_Witness ==
    /\ LabelCalled /\ calls.last = "construct"
    /\ label = FixedLabel(HelloWorld, 8)
    /\ ret.val = <<"h", "e", "l", "l", "o", ".", ".", ".">>

\* C10: for 0 <= limit < 3 and a text longer than limit the result is not
\* bounded by limit: it ends with "..." and is longer than limit
\* (len(text) + limit characters for limit 1 and 2, max(len(text), 3) for
\* limit 0); for a text no longer than limit its length is exactly limit.
C10_SmallLimit ==
    (LabelCalled /\ label.limit >= 0 /\ label.limit < 3) =>
        LET r == Display
            n == Len(label.text)
        IN  IF n > label.limit
            THEN /\ EndsWithDots(r)
                 /\ Len(r) > label.limit
                 /\ Len(r) = IF label.limit = 0 THEN Max(n, 3) ELSE n + label.limit
            ELSE Len(r) = label.limit

C10_Witness ==
    /\ LabelCalled /\ calls.last = "construct"
    /\ label.limit = 2 /\ Len(label.text) = 4
    /\ Len(ret.val) = 6 /\ EndsWithDots(ret.val)

-----------------------------------------------------------------------------
(* DataFrame: print() on a frame of any data, colors and header.           *)

X == <<"x">>
Y == <<"y">>
Z == <<"z">>
Red == <<"r", "e", "d">>
Green == <<"g", "r", "e", "e", "n">>
Title == <<"T">>

DataTexts == {X, Y, Z}
Colors == {Red, Green}
Headers == {NoHeader, Header(Title, DefaultHeaderStyle)}

InitFrame ==
    /\ frame \in {DataFrame(d, h, c) : d \in Lists(DataTexts, MaxData),
                                       h \in Headers,
                                       c \in Lists(Colors, MaxColors)}
    /\ screen = NoObject /\ box = NoObject /\ label = NoObject
    /\ selector = NoObject
    /\ pc = "idle" /\ idx = 0 /\ printed = <<>> /\ exc = "None"
    /\ ret = PyNone /\ appended = <<>> /\ calls = NoCalls

FramePrint ==
    /\ frame.kind = "DataFrame"
    /\ printed' = DataFrame_print(frame)
    /\ ret' = PyNone
    /\ calls' = Called("print")
    /\ UNCHANGED <<screen, pc, idx, exc, box, appended, label, frame, selector>>

NextFrame == FramePrint

SpecFrame == InitFrame /\ [][NextFrame]_vars

\* The events written by the most recent DataFrame.print: the header's
\* (one, when the frame has a Header), then the data lines.
FramePrinted == frame.kind = "DataFrame" /\ calls.last = "print"
HeaderLines == IF frame.header.kind = "Header" THEN 1 ELSE 0
DataLines == SubSeq(printed, HeaderLines + 1, Len(printed))

\* Whether line is '[color]+[/color] text'.
PairsWith(line, text, color) ==
    /\ Len(line) = 2 * Len(color) + Len(text) + 7
    /\ SubSeq(line, 2, Len(color) + 1) = color
    /\ SubSeq(line, Len(line) - Len(text) + 1, Len(line)) = text
    /\ line[Len(line) - Len(text)] = " "

\* C5: DataFrame.print writes exactly min(len(data), len(colors)) data
\* lines, the i-th pairing data[i] with colors[i], whichever sequence is
\* the longer; what lies beyond the shorter length is dropped without an
\* error, and the header, when there is one, is written before any data line.
C5_ZipToShorter ==
    FramePrinted =>
        /\ exc = "None"
        /\ Len(printed) >= HeaderLines
        /\ Len(DataLines) = Min(Len(frame.data), Len(frame.colors))
        /\ \A i \in 1..Len(DataLines) :
               /\ DataLines[i].sink = "console"
               /\ PairsWith(DataLines[i].text, frame.data[i], frame.colors[i])
        /\ frame.header.kind = "Header" =>
               /\ printed[1].text = <<" ">> \o frame.header.text \o <<" ">>
               /\ printed[1].style = frame.header.style

C5_Witness ==
    /\ FramePrinted
    /\ frame.data = <<X, Y, Z>> /\ frame.colors = <<Red, Green>>
    /\ frame.header.kind = "Header"
    /\ Len(printed) = 3
    /\ PairsWith(printed[3].text, Y, Green)

-----------------------------------------------------------------------------
(* ScrollingTextBox: print(text) on a box of any limit.                    *)

BoxTexts == {<<"a">>, <<"b">>, <<"c">>, <<"d">>}

InitBox ==
    /\ box \in {ScrollingTextBox(l) : l \in 0..MaxBoxLimit}
    /\ screen = NoObject /\ label = NoObject /\ frame = NoObject
    /\ selector = NoObject
    /\ pc = "idle" /\ idx = 0 /\ printed = <<>> /\ exc = "None"
    /\ ret = PyNone /\ appended = <<>> /\ calls = NoCalls

\* print(text) when pop(0) finds the list empty: IndexError, nothing appended.
BoxPrintRaises(text) ==
    /\ Len(box.line_buffer) >= box.limit /\ Len(box.line_buffer) = 0
    /\ exc' = "IndexError"
    /\ printed' = <<>>
    /\ UNCHANGED box

BoxPrintReturns(text) ==
    /\ ~(Len(box.line_buffer) >= box.limit /\ Len(box.line_buffer) = 0)
    /\ box' = [box EXCEPT !.line_buffer = Scrolled(box, text)]
    /\ printed' = [i \in 1..Len(box'.line_buffer) |->
                      ConsolePrint(box'.line_buffer[i])]
    /\ exc' = "None"

BoxPrint ==
    /\ box.kind = "ScrollingTextBox"
    /\ Len(appended) < MaxAppends
    /\ \E text \in BoxTexts :
          /\ BoxPrintRaises(text) \/ BoxPrintReturns(text)
          /\ appended' = Append(appended, text)
    /\ ret' = PyNone
    /\ calls' = Called("print")
    /\ UNCHANGED <<screen, pc, idx, label, frame, selector>>

NextBox == BoxPrint

SpecBox == InitBox /\ [][NextBox]_vars

\* The last n elements of s (all of s when it has fewer).
LastN(s, n) == SubSeq(s, Max(Len(s) - n, 0) + 1, Len(s))

\* C1: for a box of limit L >= 1, after any number of appends the buffer is
\* the last L elements of L empty strings followed by the appended lines in
\* append order: its length is always L, and once L lines have been appended
\* it holds exactly the last L of them.
C1_BufferIsLastLimit ==
    (box.kind = "ScrollingTextBox" /\ box.limit >= 1) =>
        /\ exc = "None"
        /\ Len(box.line_buffer) = box.limit
        /\ box.line_buffer
               = LastN([i \in 1..box.limit |-> <<>>] \o appended, box.limit)
        /\ Len(appended) >= box.limit
               => box.line_buffer = LastN(appended, box.limit)

C1_Witness ==
    /\ box.kind = "ScrollingTextBox" /\ box.limit = 3
    /\ appended = <<<<"a">>, <<"b">>, <<"c">>, <<"d">>>>
    /\ box.line_buffer = <<<<"b">>, <<"c">>, <<"d">>>>

-----------------------------------------------------------------------------
(* Selector: print() and ask() on a selector of any choices and header.    *)

A == <<"a">>
B == <<"b">>
DescA == <<"f", "i", "r", "s", "t">>
DescB == <<"n", "e", "x", "t">>
Blue == <<"b", "l", "u", "e">>

\* dicts of zero, one, two and four items
ChoiceDicts ==
    { <<>>,
      <<<<A, DescA>>>>,
      <<<<B, DescB>>, <<A, DescA>>>>,
      <<<<A, DescA>>, <<B, DescB>>, <<X, DescA>>, <<Y, DescB>>>> }

InputChars == {"0", "7", "-", " ", "x"}
AskLines == Strs(InputChars, MaxInputLen)
AskInputs == {InputLine(t) : t \in AskLines} \cup {Interrupt, EndOfInput}

InitSelector ==
    /\ selector \in {Selector(h, c, Blue) : h \in Headers,
                                            c \in Lists(ChoiceDicts, MaxChoices)}
    /\ screen = NoObject /\ box = NoObject /\ label = NoObject
    /\ frame = NoObject
    /\ pc = "idle" /\ idx = 0 /\ printed = <<>> /\ exc = "None"
    /\ ret = PyNone /\ appended = <<>> /\ calls = NoCalls

SelectorPrint ==
    /\ selector.kind = "Selector"
    /\ printed' = Selector_print(selector)
    /\ ret' = PyNone /\ exc' = "None"
    /\ calls' = Called("print")
    /\ UNCHANGED <<screen, pc, idx, box, appended, label, frame, selector>>

NextSelector == SelectorPrint

SpecSelector == InitSelector /\ [][NextSelector]_vars

(* Selector.ask on a selector of one or two choices, with any input.       *)

AskChoices == {<<<<<<A, DescA>>>>>>, <<<<<<A, DescA>>>>, <<<<B, DescB>>>>>>}

InitAsk ==
    /\ selector \in {Selector(h, c, Blue) : h \in Headers, c \in AskChoices}
    /\ screen = NoObject /\ box = NoObject /\ label = NoObject
    /\ frame = NoObject
    /\ pc = "idle" /\ idx = 0 /\ printed = <<>> /\ exc = "None"
    /\ ret = PyNone /\ appended = <<>> /\ calls = NoCalls

\* ask(print): self.print() when print is true, then the prompt and the input.
SelectorAsk ==
    /\ selector.kind = "Selector"
    /\ LET shown == Selector_print(selector)
       IN  \E print \in BOOLEAN, input \in AskInputs :
              LET result == Selector_ask(selector, input)
              IN  /\ printed' = (IF print THEN shown ELSE <<>>)
                                    \o <<AskPrompt(selector)>>
                  /\ ret' = result.ret
                  /\ exc' = result.exc
                  /\ calls' = CalledWith("ask", input)
    /\ UNCHANGED <<screen, pc, idx, box, appended, label, frame, selector>>

NextAsk == SelectorAsk

SpecAsk == InitAsk /\ [][NextAsk]_vars

\* All (label, description) items of all choice dicts, in order.
RECURSIVE Flattened(_)
Flattened(choices) ==
    IF Len(choices) = 0 THEN <<>> ELSE Head(choices) \o Flattened(Tail(choices))

SelectorPrinted == selector.kind = "Selector" /\ calls.last = "print"
SelectorHeaderLines == IF selector.header.kind = "Header" THEN 1 ELSE 0
ChoiceLinesPrinted == SubSeq(printed, SelectorHeaderLines + 1, Len(printed))

\* The position of the first "." of a line, and the number written between
\* the "[b]" and that ".".
FirstDot(line) == CHOOSE p \in 1..Len(line) :
                      line[p] = "." /\ \A q \in 1..(p - 1) : line[q] # "."
NumberOf(line) == DigitsToInt(SubSeq(line, 4, FirstDot(line) - 1))
LabelOf(line) == SubSeq(line, FirstDot(line) + 2, Len(line) - 3)

\* C6: Selector.print numbers the rendered choices 1, 2, 3, ... across the
\* flattened sequence of (label, description) pairs of all the choice
\* dicts in order: the j-th pair rendered carries the number j, whether a
\* dict holds no, one or several keys.
C6_NumberedFromOne ==
    SelectorPrinted =>
        LET pairs == Flattened(selector.choices)
            lines == ChoiceLinesPrinted
        IN  /\ Len(lines) = 2 * Len(pairs)
            /\ \A j \in 1..Len(pairs) :
                   LET head == lines[2 * j - 1].text
                   IN  /\ \E p \in 5..Len(head) : head[p] = "."
                       /\ \A p \in 4..(FirstDot(head) - 1) : IsDigit(head[p])
                       /\ NumberOf(head) = j
                       /\ LabelOf(head) = pairs[j][1]
                       /\ lines[2 * j].text = <<" ", " ", " ">> \o pairs[j][2]

C6_Witness ==
    /\ SelectorPrinted
    /\ Len(selector.choices) = 3
    /\ Len(selector.choices[1]) = 4 /\ Len(selector.choices[2]) = 0
    /\ Len(selector.choices[3]) = 2
    /\ Len(ChoiceLinesPrinted) = 12
    /\ NumberOf(ChoiceLinesPrinted[11].text) = 6

\* C7: when the user cancels the input of ask, ask raises nothing and returns
\* a value that equals no integer a successful ask can return, 0 included.
C7_CancelIsDistinct ==
    (selector.kind = "Selector" /\ calls.last = "ask"
        /\ calls.arg.kind = "KeyboardInterrupt") =>
        /\ exc = "None"
        /\ \A line \in AskLines :
               PyIntParse(line).ok => ~PyEq(ret, PyInt(PyIntParse(line).val))

-----------------------------------------------------------------------------
(* Screen: clear, partial_clear, hide_cursor, show_cursor, print and        *)
(* print_layout on a screen of any layout.  print_layout is one step per   *)
(* iteration of its for loop; no other call starts while it runs.          *)

LayoutWidgets ==
    { Header(Title, DefaultHeaderStyle),
      FixedLabel(HelloWorld, 8),
      DataFrame(<<X, Y, Z>>, NoHeader, <<Red, Green>>),
      Selector(Header(Title, DefaultHeaderStyle),
               <<<<<<A, DescA>>>>, <<<<B, DescB>>, <<A, DescA>>>>>>, Blue),
      InfoFrame(<<<<<<A, DescA>>>>>>, NoHeader),
      InfoFrame(<<<<<<A, DescA>>>>, <<>>>>, Header(Title, DefaultHeaderStyle)),
      ScrollingTextBox(2) }

Separators == {<<"\n">>, <<"-", "\n">>}
ClearLines == {PyInt(0), PyInt(99), PyStr(<<"a", "l", "l">>)}
ScreenTexts == {Hello}

InitScreen ==
    /\ screen \in {Screen(l, sep) :
                      l \in {NoLayout}
                            \cup {Layout(w) : w \in Lists(LayoutWidgets, MaxLayout)},
                      sep \in Separators}
    /\ box = NoObject /\ label = NoObject /\ frame = NoObject
    /\ selector = NoObject
    /\ pc = "idle" /\ idx = 0 /\ printed = <<>> /\ exc = "None"
    /\ ret = PyNone /\ appended = <<>> /\ calls = NoCalls

Ready == screen.kind = "Screen" /\ pc = "idle"

Clear ==
    /\ Ready /\ screen.updates < MaxUpdates
    /\ screen' = Screen_clear(screen)
    /\ printed' = <<ClearCommand>>
    /\ exc' = "None" /\ ret' = PyNone
    /\ calls' = [last |-> "clear", arg |-> PyNone, clears |-> calls.clears + 1]
    /\ UNCHANGED <<pc, idx, box, appended, label, frame, selector>>

PartialClear ==
    /\ Ready /\ screen.updates < MaxUpdates
    /\ \E lines \in ClearLines :
          /\ screen' = Screen_partial_clear(screen, lines)
          /\ printed' = <<StdoutPrint(PartialClearText(lines))>>
          /\ calls' = [last |-> "partial_clear", arg |-> lines,
                       clears |-> calls.clears + 1]
    /\ exc' = "None" /\ ret' = PyNone
    /\ UNCHANGED <<pc, idx, box, appended, label, frame, selector>>

HideCursor ==
    /\ Ready
    /\ screen' = [screen EXCEPT !.visible = FALSE]
    /\ printed' = <<>> /\ exc' = "None" /\ ret' = PyNone
    /\ calls' = Called("hide_cursor")
    /\ UNCHANGED <<pc, idx, box, appended, label, frame, selector>>

ShowCursor ==
    /\ Ready
    /\ screen' = [screen EXCEPT !.visible = TRUE]
    /\ printed' = <<>> /\ exc' = "None" /\ ret' = PyNone
    /\ calls' = Called("show_cursor")
    /\ UNCHANGED <<pc, idx, box, appended, label, frame, selector>>

ScreenPrint ==
    /\ Ready
    /\ \E text \in ScreenTexts :
          /\ printed' = <<ConsolePrint(text)>>
          /\ calls' = CalledWith("print", PyStr(text))
    /\ exc' = "None" /\ ret' = PyNone
    /\ UNCHANGED <<screen, pc, idx, box, appended, label, frame, selector>>

\* print_layout is called: `for widget in self.layout` raises TypeError
\* when the layout is None.
PrintLayoutCall ==
    /\ Ready
    /\ printed' = <<>> /\ ret' = PyNone
    /\ calls' = Called("print_layout")
    /\ IF screen.layout.kind = "None"
       THEN exc' = "TypeError" /\ UNCHANGED <<pc, idx>>
       ELSE exc' = "None" /\ pc' = "print_layout" /\ idx' = 1
    /\ UNCHANGED <<screen, box, appended, label, frame, selector>>

\* One iteration of the for loop.
PrintLayoutStep ==
    /\ pc = "print_layout" /\ idx <= Len(screen.layout.items)
    /\ LET r == WidgetPrint(screen.layout.items[idx])
       IN  IF Propagates(r.exc)
           THEN /\ printed' = printed \o r.out
                /\ exc' = r.exc
                /\ pc' = "idle"
                /\ UNCHANGED idx
           ELSE /\ printed' = printed \o LayoutIteration(screen.layout.items, idx,
                                                         screen.widget_separator)
                /\ idx' = idx + 1
                /\ UNCHANGED <<pc, exc>>
    /\ UNCHANGED <<screen, ret, calls, box, appended, label, frame, selector>>

\* The for loop is exhausted: print_layout returns None.
PrintLayoutReturn ==
    /\ pc = "print_layout" /\ idx > Len(screen.layout.items)
    /\ pc' = "idle"
    /\ UNCHANGED <<screen, idx, printed, exc, ret, calls, box, appended, label,
                   frame, selector>>

Next ==
    \/ Clear \/ PartialClear \/ HideCursor \/ ShowCursor \/ ScreenPrint
    \/ PrintLayoutCall \/ PrintLayoutStep \/ PrintLayoutReturn

Spec == InitScreen /\ [][Next]_vars

\* What print_layout has written once the first n widgets of items have each
\* been rendered and followed by the separator.
RECURSIVE Rendered(_, _, _)
Rendered(items, n, sep) ==
    IF n = 0 THEN <<>>
    ELSE Rendered(items, n - 1, sep) \o WidgetPrint(items[n]).out
             \o <<Event("stdout", sep, <<>>)>>

InLayoutCall ==
    /\ screen.kind = "Screen" /\ screen.layout.kind = "list"
    /\ calls.last = "print_layout"
LayoutCallOver == InLayoutCall /\ pc = "idle"
Fails(w) == WidgetPrint(w).exc # "None"
SomeFails(items) == \E i \in 1..Len(items) : Fails(items[i])
FirstFailing(items) ==
    CHOOSE i \in 1..Len(items) :
        Fails(items[i]) /\ \A j \in 1..(i - 1) : ~Fails(items[j])
SeparatorsWritten == Cardinality({p \in 1..Len(printed) : printed[p].sink = "stdout"})

\* C2: print_layout on a layout of n widgets whose renders all succeed writes
\* render(w1), separator, ..., render(wn), separator: the widgets in layout
\* order, each once, and the separator once after every widget, the last
\* included.
C2_LayoutInOrder ==
    (InLayoutCall /\ ~SomeFails(screen.layout.items)) =>
        LET items == screen.layout.items
            sep == screen.widget_separator
        IN  /\ exc = "None"
            /\ pc = "print_layout" =>
                   /\ idx \in 1..(Len(items) + 1)
                   /\ printed = Rendered(items, idx - 1, sep)
            /\ pc = "idle" =>
                   /\ printed = Rendered(items, Len(items), sep)
                   /\ SeparatorsWritten = Len(items)
                   /\ Len(items) > 0 =>
                          printed[Len(printed)] = Event("stdout", sep, <<>>)

C2_Witness ==
    /\ LayoutCallOver
    /\ Len(screen.layout.items) = 3
    /\ screen.layout.items[1].kind = "Selector"
    /\ screen.layout.items[2].kind = "FixedLabel"
    /\ screen.layout.items[3].kind = "DataFrame"
    /\ Len(printed) = 7 + 1 + 1 + 1 + 2 + 1
    /\ printed[9].text = <<"h", "e", "l", "l", "o", ".", ".", ".">>
    /\ printed[13].sink = "stdout"

\* C8: when the render of the i-th widget fails during print_layout, the
\* failure reaches the caller at once: the widgets before i have each been
\* rendered and followed by a separator, no separator is written for widget
\* i, and no widget after i is rendered (a ScrollingTextBox in the layout,
\* whose print needs an argument, is such a failure).
C8_FailurePropagates ==
    (InLayoutCall /\ SomeFails(screen.layout.items)) =>
        LET items == screen.layout.items
            sep == screen.widget_separator
            i == FirstFailing(items)
        IN  /\ pc = "print_layout" =>
                   /\ idx \in 1..i
                   /\ exc = "None"
                   /\ printed = Rendered(items, idx - 1, sep)
            /\ pc = "idle" =>
                   /\ exc = WidgetPrint(items[i]).exc
                   /\ exc # "None"
                   /\ idx = i
                   /\ printed = Rendered(items, i - 1, sep)
                                    \o WidgetPrint(items[i]).out
                   /\ SeparatorsWritten = i - 1

C8_Witness ==
    /\ LayoutCallOver
    /\ Len(screen.layout.items) = 3
    /\ screen.layout.items[1].kind = "Header"
    /\ screen.layout.items[2].kind = "ScrollingTextBox"
    /\ screen.layout.items[3].kind = "FixedLabel"
    /\ exc = "TypeError"
    /\ Len(printed) = 2 /\ printed[2].sink = "stdout"

\* C9: the update counter starts at 0, grows by exactly 1 with every clear()
\* and every partial_clear(lines), whatever lines is, and is left alone by
\* hide_cursor, show_cursor, print and print_layout: it never decreases and
\* always equals the number of clear and partial_clear calls made.
C9_UpdatesCountClears ==
    screen.kind = "Screen" =>
        /\ screen.updates = calls.clears
        /\ calls.last = "init" => screen.updates = 0

C9_Witness ==
    /\ LayoutCallOver /\ exc = "None"
    /\ Len(screen.layout.items) = 2
    /\ screen.visible
    /\ screen.updates = 2 /\ calls.clears = 2

\* C9, step by step: a step that is a clear() or a partial_clear() adds 1 to
\* the counter and every other step leaves it as it is.
C9_StepByOne ==
    [][screen.kind = "Screen" =>
          screen'.updates = screen.updates
              + (IF calls'.last \in {"clear", "partial_clear"}
                    /\ calls'.clears # calls.clears
                 THEN 1 ELSE 0)]_vars

=============================================================================
